---- MODULE Spec2Model ----
(***************************************************************************)
(* A model of src/pii.py: the PII detector and redactor                    *)
(* (PIIDetectorRedactor) and its CSV driver (main).                        *)
(*                                                                         *)
(* A Python str is a sequence of one-character strings.  A JSON scalar is  *)
(* a record [t, s, n]: t is its Python type ("str", "int", "bool",         *)
(* "null"), s the characters of a str, n the number of an int or the 0/1   *)
(* of a bool.                                                              *)
(***************************************************************************)
EXTENDS Integers, Sequences, FiniteSets, TLC

VARIABLES
    \* one call of a detector and of a masking function
    field, arg, mpc, detected, out,
    \* one call of process_record
    record, given, order, rpc, res,
    \* one run of main
    rows, row_i, outfile, mstatus

vars == <<field, arg, mpc, detected, out, record, given, order, rpc, res,
          rows, row_i, outfile, mstatus>>
maskVars == <<field, arg, mpc, detected, out>>
recVars == <<record, given, order, rpc, res>>
mainVars == <<rows, row_i, outfile, mstatus>>

----------------------------------------------------------------------------
(* Python values *)

Str(s) == [t |-> "str", s |-> s, n |-> 0]
Num(n) == [t |-> "int", s |-> <<>>, n |-> n]
Bool(b) == [t |-> "bool", s |-> <<>>, n |-> IF b THEN 1 ELSE 0]
Null == [t |-> "null", s |-> <<>>, n |-> 0]
\* the key is not in the dict
Absent == [t |-> "absent", s |-> <<>>, n |-> 0]

\* isinstance(value, str)
IsStr(v) == v.t = "str"

\* Python truthiness of a scalar: `if value`
Truthy(v) ==
    CASE v.t = "str" -> Len(v.s) > 0
      [] v.t = "int" -> v.n # 0
      [] v.t = "bool" -> v.n = 1
      [] OTHER -> FALSE

\* the outcome of a call: a returned value or a raised exception
Ok(v) == [exc |-> "none", val |-> v]
Raise(e) == [exc |-> e, val |-> Null]

----------------------------------------------------------------------------
(* Character classes of the regular expressions and of the str methods *)

Digits == {"0", "1", "2", "3", "4", "5", "6", "7", "8", "9"}
UpperLetters ==
    {"A", "B", "C", "D", "E", "F", "G", "H", "I", "J", "K", "L", "M",
     "N", "O", "P", "Q", "R", "S", "T", "U", "V", "W", "X", "Y", "Z"}
LowerLetters ==
    {"a", "b", "c", "d", "e", "f", "g", "h", "i", "j", "k", "l", "m",
     "n", "o", "p", "q", "r", "s", "t", "u", "v", "w", "x", "y", "z"}
\* [A-PR-WY]
PassportFirst == UpperLetters \ {"Q", "X", "Z"}
\* [A-Z0-9]
PassportRest == UpperLetters \cup Digits
\* [\w.-]
UpiChars == Digits \cup UpperLetters \cup LowerLetters \cup {"_", ".", "-"}
\* what str.split() with no argument splits on
Whitespace == {" ", "\t", "\n"}

----------------------------------------------------------------------------
(* str operations *)

Min(a, b) == IF a < b THEN a ELSE b
Max(a, b) == IF a > b THEN a ELSE b

\* s[:k]
Take(s, k) == SubSeq(s, 1, Min(k, Len(s)))
\* s[-k:]
LastN(s, k) == SubSeq(s, Max(1, Len(s) - k + 1), Len(s))
\* c * n
Rep(c, n) == IF n <= 0 THEN <<>> ELSE [i \in 1..n |-> c]
AllIn(s, class) == \A i \in 1..Len(s) : s[i] \in class
\* s.isdigit()
isdigit(s) == Len(s) > 0 /\ AllIn(s, Digits)
\* the index of the first c in s, 0 when there is none
IndexOf(s, c) ==
    IF \E i \in 1..Len(s) : s[i] = c
    THEN CHOOSE i \in 1..Len(s) : s[i] = c /\ \A j \in 1..(i - 1) : s[j] # c
    ELSE 0

RECURSIVE SplitOn(_, _)
\* s.split(c): every part, the empty ones too
SplitOn(s, c) ==
    LET i == IndexOf(s, c)
    IN IF i = 0 THEN <<s>>
       ELSE <<SubSeq(s, 1, i - 1)>> \o SplitOn(SubSeq(s, i + 1, Len(s)), c)

RECURSIVE SplitWs(_, _)
\* s.split(): the maximal runs of non-whitespace; cur is the run being read
SplitWs(s, cur) ==
    IF s = <<>> THEN (IF cur = <<>> THEN <<>> ELSE <<cur>>)
    ELSE IF Head(s) \in Whitespace
         THEN (IF cur = <<>> THEN <<>> ELSE <<cur>>) \o SplitWs(Tail(s), <<>>)
         ELSE SplitWs(Tail(s), Append(cur, Head(s)))

RECURSIVE Join(_, _)
\* sep.join(parts)
Join(parts, sep) ==
    IF parts = <<>> THEN <<>>
    ELSE IF Len(parts) = 1 THEN parts[1]
    ELSE parts[1] \o sep \o Join(Tail(parts), sep)

----------------------------------------------------------------------------
(* The patterns.  re.match with ^...$ : $ matches at the end of the string *)
(* and also just before a newline that ends the string.                    *)

\* (\d{10})
PhoneBody(s) == Len(s) = 10 /\ AllIn(s, Digits)
\* (\d{12})
AadharBody(s) == Len(s) = 12 /\ AllIn(s, Digits)
\* [A-PR-WY][A-Z0-9]{6,9}
PassportBody(s) ==
    /\ Len(s) >= 7 /\ Len(s) <= 10
    /\ s[1] \in PassportFirst
    /\ AllIn(Tail(s), PassportRest)
\* [\w.-]+@[\w.-]+
UpiBody(s) ==
    LET i == IndexOf(s, "@")
    IN /\ i > 1 /\ i < Len(s)
       /\ AllIn(SubSeq(s, 1, i - 1), UpiChars)
       /\ AllIn(SubSeq(s, i + 1, Len(s)), UpiChars)

\* the pattern of a key between its ^ and $, matched against all of s
PatternBody(key, s) ==
    CASE key = "phone" -> PhoneBody(s)
      [] key = "aadhar" -> AadharBody(s)
      [] key = "passport" -> PassportBody(s)
      [] key = "upi_id" -> UpiBody(s)
      [] OTHER -> FALSE

\* self.patterns[key].match(s): the body, then $
patterns(key, s) ==
    \/ PatternBody(key, s)
    \/ /\ Len(s) > 0
       /\ s[Len(s)] = "\n"
       /\ PatternBody(key, SubSeq(s, 1, Len(s) - 1))

combinatorial_pii == <<"name", "email", "address", "device_id", "ip_address">>
standalone_keys == {"phone", "aadhar", "passport", "upi_id"}
combinatorial_keys == {combinatorial_pii[i] : i \in 1..Len(combinatorial_pii)}

is_standalone_pii(key, value) ==
    IF ~IsStr(value) THEN FALSE
    ELSE IF key = "phone" /\ patterns("phone", value.s) THEN TRUE
    ELSE IF key = "aadhar" /\ patterns("aadhar", value.s) THEN TRUE
    ELSE IF key = "passport" /\ patterns("passport", value.s) THEN TRUE
    ELSE IF key = "upi_id" /\ patterns("upi_id", value.s) THEN TRUE
    ELSE FALSE

----------------------------------------------------------------------------
(* The masking library.  Each function takes the value it is called with   *)
(* and returns Ok(str) or raises what Python raises.                       *)

\* a mask_phone that keeps the first four digits
mask_phone_keeps_four(phone) ==
    IF ~IsStr(phone) THEN Raise("TypeError")
    ELSE Ok(Str(Take(phone.s, 4) \o Rep("X", 4) \o LastN(phone.s, 2)))

\* phone[:2] + 'X' * 6 + phone[-2:]
mask_phone(phone) ==
    IF ~IsStr(phone) THEN Raise("TypeError")
    ELSE Ok(Str(Take(phone.s, 2) \o Rep("X", 6) \o LastN(phone.s, 2)))

\* 'XXXX XXXX ' + aadhar[-4:]
mask_aadhar(aadhar) ==
    IF ~IsStr(aadhar) THEN Raise("TypeError")
    ELSE Ok(Str(<<"X", "X", "X", "X", " ", "X", "X", "X", "X", " ">>
                \o LastN(aadhar.s, 4)))

mask_passport(passport) ==
    IF ~IsStr(passport) THEN Raise("TypeError")
    ELSE IF Len(passport.s) > 4
    THEN Ok(Str(<<passport.s[1]>> \o Rep("X", Len(passport.s) - 4)
                \o LastN(passport.s, 3)))
    ELSE Ok(passport)

\* first char + '*' * max(3, len - 1), the rule of mask_upi's else branch
StarTail(s) == <<s[1]>> \o Rep("*", Max(3, Len(s) - 1))

mask_upi(upi) ==
    IF ~IsStr(upi) THEN Raise("AttributeError")
    ELSE LET i == IndexOf(upi.s, "@")
             username == SubSeq(upi.s, 1, i - 1)
             domain == SubSeq(upi.s, i + 1, Len(upi.s))
         IN \* username, domain = upi.split('@', 1) unpacks one value
            IF i = 0 THEN Raise("ValueError")
            ELSE IF isdigit(username) /\ Len(username) = 10
            THEN Ok(Str(mask_phone(Str(username)).val.s \o <<"@">> \o domain))
            \* username[0] of an empty username
            ELSE IF username = <<>> THEN Raise("IndexError")
            ELSE Ok(Str(StarTail(username) \o <<"@">> \o domain))

mask_email(email) ==
    IF ~IsStr(email) THEN Raise("AttributeError")
    ELSE LET i == IndexOf(email.s, "@")
             local_part == SubSeq(email.s, 1, i - 1)
             domain == SubSeq(email.s, i + 1, Len(email.s))
             masked_local == IF Len(local_part) > 1
                             THEN StarTail(local_part)
                             ELSE local_part \o <<"*", "*", "*">>
         IN \* local_part, domain = email.split('@', 1) unpacks one value
            IF i = 0 THEN Raise("ValueError")
            ELSE Ok(Str(masked_local \o <<"@">> \o domain))

\* one part of a name, one non-numeric word of an address
MaskPart(part) ==
    IF Len(part) > 1 THEN StarTail(part) ELSE part \o <<"*", "*", "*">>

mask_name(name) ==
    IF ~IsStr(name) THEN Raise("AttributeError")
    ELSE LET parts == SplitWs(name.s, <<>>)
             masked_parts == [i \in 1..Len(parts) |-> MaskPart(parts[i])]
         IN Ok(Str(Join(masked_parts, <<" ">>)))

\* one word of an address
MaskWord(word) ==
    IF isdigit(word)
    THEN IF Len(word) > 2
         THEN <<word[1]>> \o Rep("*", Len(word) - 2) \o <<word[Len(word)]>>
         ELSE Rep("*", Len(word))
    ELSE MaskPart(word)

mask_address(address) ==
    IF ~IsStr(address) THEN Raise("AttributeError")
    ELSE LET words == SplitWs(address.s, <<>>)
             masked_words == [i \in 1..Len(words) |-> MaskWord(words[i])]
         IN Ok(Str(Join(masked_words, <<" ">>)))

mask_device_id(device_id) ==
    \* len() of a number or a bool
    IF ~IsStr(device_id) THEN Raise("TypeError")
    ELSE LET d == device_id.s
         IN IF Len(d) > 2
            THEN Ok(Str(<<d[1]>> \o Rep("*", Len(d) - 2) \o <<d[Len(d)]>>))
            ELSE Ok(Str(Rep("*", Len(d))))

mask_ip_address(ip) ==
    IF ~IsStr(ip) THEN Raise("AttributeError")
    ELSE LET parts == SplitOn(ip.s, ".")
         IN IF Len(parts) = 4
            THEN Ok(Str(parts[1] \o <<".">> \o parts[2] \o <<".", "*", ".", "*">>))
            ELSE Ok(ip)

\* the masking function process_record calls for a key
MaskOf(key, value) ==
    CASE key = "phone" -> mask_phone(value)
      [] key = "aadhar" -> mask_aadhar(value)
      [] key = "passport" -> mask_passport(value)
      [] key = "upi_id" -> mask_upi(value)
      [] key = "name" -> mask_name(value)
      [] key = "email" -> mask_email(value)
      [] key = "address" -> mask_address(value)
      [] key = "device_id" -> mask_device_id(value)
      [] key = "ip_address" -> mask_ip_address(value)

----------------------------------------------------------------------------
(* The example each masking function's docstring gives: input -> output *)

DocIn(key) ==
    CASE key = "phone" ->
           <<"9", "8", "7", "6", "5", "4", "3", "2", "1", "0">>
      [] key = "aadhar" ->
           <<"1", "2", "3", "4", "5", "6", "7", "8", "9", "0", "1", "2">>
      [] key = "passport" ->
           <<"P", "1", "2", "3", "4", "5", "6", "7">>
      [] key = "upi_id" ->
           <<"u", "s", "e", "r", "@", "u", "p", "i">>
      [] key = "email" ->
           <<"j", "o", "h", "n", ".", "d", "o", "e", "@", "e", "x", "a", "m", "p", "l", "e", ".", "c", "o", "m">>
      [] key = "name" ->
           <<"J", "o", "h", "n", " ", "D", "o", "e">>
      [] key = "address" ->
           <<"1", "2", "3", " ", "M", "a", "i", "n", " ", "S", "t">>
      [] key = "device_id" ->
           <<"D", "E", "V", "1", "2", "3", "4", "5", "6">>
      [] key = "ip_address" ->
           <<"1", "9", "2", ".", "1", "6", "8", ".", "1", ".", "1">>

DocOut(key) ==
    CASE key = "phone" ->
           <<"9", "8", "X", "X", "X", "X", "X", "X", "1", "0">>
      [] key = "aadhar" ->
           <<"X", "X", "X", "X", " ", "X", "X", "X", "X", " ", "9", "0", "1", "2">>
      [] key = "passport" ->
           <<"P", "X", "X", "X", "X", "5", "6", "7">>
      [] key = "upi_id" ->
           <<"u", "*", "*", "*", "@", "u", "p", "i">>
      [] key = "email" ->
           <<"j", "*", "*", "*", "@", "e", "x", "a", "m", "p", "l", "e", ".", "c", "o", "m">>
      [] key = "name" ->
           <<"J", "*", "*", "*", " ", "D", "*", "*", "*">>
      [] key = "address" ->
           <<"1", "*", "*", " ", "M", "*", "*", "*", " ", "S", "*", "*", "*">>
      [] key = "device_id" ->
           <<"D", "*", "*", "*", "*", "*", "*", "*", "6">>
      [] key = "ip_address" ->
           <<"1", "9", "2", ".", "1", "6", "8", ".", "*", ".", "*">>

----------------------------------------------------------------------------
(* One call of is_standalone_pii and of a masking function on one value *)

\* the longest value the calls are tried on
MaxLen == 13

mask_keys == standalone_keys \cup combinatorial_keys

\* the first n characters of s repeated
Stretch(s, n) == [i \in 1..n |-> s[((i - 1) % Len(s)) + 1]]
\* characters put in place of one of a value's characters, or after it
OddChars == {"a", "X", "7", "\n", " ", "@", ".", "*"}
\* s with its p-th character replaced by c; with c appended when p = Len(s) + 1
Vary(s, p, c) ==
    IF p = Len(s) + 1 THEN Append(s, c) ELSE [s EXCEPT ![p] = c]

\* the values tried for a key: its documented example, and the example cut
\* or repeated to every length up to MaxLen, with one character replaced or
\* appended
InputsOf(key) ==
    {DocIn(key)}
    \cup {Stretch(DocIn(key), n) : n \in 0..MaxLen}
    \cup UNION {{Vary(Stretch(DocIn(key), n), p, c) :
                     p \in 1..(n + 1), c \in OddChars} : n \in 0..(MaxLen - 1)}

MaskInit ==
    /\ field \in mask_keys
    /\ arg \in {Str(s) : s \in InputsOf(field)}
    /\ mpc = "ready"
    /\ detected = FALSE
    /\ out = Raise("not called")

\* detector.is_standalone_pii(field, arg)
Detect ==
    /\ mpc = "ready"
    /\ detected' = is_standalone_pii(field, arg)
    /\ mpc' = "detected"
    /\ UNCHANGED <<field, arg, out>>

\* the masking function of the field, called on arg
Mask ==
    /\ mpc = "detected"
    /\ out' = MaskOf(field, arg)
    /\ mpc' = "masked"
    /\ UNCHANGED <<field, arg, detected>>

----------------------------------------------------------------------------
(* process_record.  A record is a function from the keys to values, Absent *)
(* for a key the dict does not hold; the dict is iterated in `ord`.        *)

\* a key outside both vocabularies
other_key == "city"
KeyOrder ==
    <<"phone", "name", "aadhar", "email", "passport", "address", "upi_id",
      "device_id", "ip_address", "city">>
Keys == {KeyOrder[i] : i \in 1..Len(KeyOrder)}
Reverse(s) == [i \in 1..Len(s) |-> s[Len(s) + 1 - i]]

\* a process_record that writes into the caller's dict (no record.copy())
SetItem_no_copy(st, key, val) ==
    [st EXCEPT !.redacted_record[key] = val, !.record[key] = val]

\* redacted_record[key] = val
SetItem(st, key, val) == [st EXCEPT !.redacted_record[key] = val]

\* redacted_record[key] = <the mask's result>, or the exception it raised
ApplyMask(st, key, m) ==
    IF m.exc # "none" THEN [st EXCEPT !.exc = m.exc] ELSE SetItem(st, key, m.val)

\* if key in self.combinatorial_pii and value: ...append(key)
Track(st, key, value) ==
    IF st.exc = "none" /\ key \in combinatorial_keys /\ Truthy(value)
    THEN [st EXCEPT !.combinatorial_fields_present = Append(@, key)]
    ELSE st

\* the body of `for key, value in record.items()`, for one key
ScanKey(st, key, value) ==
    Track(IF is_standalone_pii(key, value)
          THEN ApplyMask([st EXCEPT !.has_standalone_pii = TRUE], key,
                         MaskOf(key, value))
          ELSE st,
          key, value)

RECURSIVE ScanLoop(_, _, _)
\* for key, value in record.items(): from the i-th key of ord on
ScanLoop(st, ord, i) ==
    IF i > Len(ord) \/ st.exc # "none" THEN st
    ELSE IF st.record[ord[i]] = Absent THEN ScanLoop(st, ord, i + 1)
    ELSE ScanLoop(ScanKey(st, ord[i], st.record[ord[i]]), ord, i + 1)

\* a redaction loop that masks only the two fields that reached the threshold
RedactKeys_first_two(present) == SubSeq(present, 1, 2)

\* the keys the redaction loop walks when has_combinatorial_pii
RedactKeys(present) == present

RECURSIVE RedactLoop(_, _, _)
\* for key in combinatorial_fields_present: from the i-th one on
RedactLoop(st, present, i) ==
    IF i > Len(present) \/ st.exc # "none" THEN st
    ELSE RedactLoop(ApplyMask(st, present[i],
                              MaskOf(present[i], st.record[present[i]])),
                    present, i + 1)

\* a threshold of more than two fields
has_combinatorial_pii_above_two(present) == Len(present) > 2

\* len(combinatorial_fields_present) >= 2
has_combinatorial_pii(present) == Len(present) >= 2

\* if has_combinatorial_pii: the redaction loop
Redact(st) ==
    IF st.exc = "none" /\ has_combinatorial_pii(st.combinatorial_fields_present)
    THEN RedactLoop(st, RedactKeys(st.combinatorial_fields_present), 1)
    ELSE st

NoRecord == [k \in Keys |-> Absent]

\* return redacted_record, is_pii; or the exception raised on the way
Return(st) ==
    IF st.exc # "none"
    THEN [exc |-> st.exc, redacted_record |-> NoRecord, is_pii |-> FALSE,
          record |-> st.record]
    ELSE [exc |-> "none", redacted_record |-> st.redacted_record,
          is_pii |-> st.has_standalone_pii
                     \/ has_combinatorial_pii(st.combinatorial_fields_present),
          record |-> st.record]

\* redacted_record = record.copy() and the two initial locals
Start(rec) ==
    [record |-> rec,
     redacted_record |-> rec,
     has_standalone_pii |-> FALSE,
     combinatorial_fields_present |-> <<>>,
     exc |-> "none"]

\* process_record(rec) of a dict iterated in ord: what it raises or returns,
\* and the caller's dict after the call
process_record(rec, ord) == Return(Redact(ScanLoop(Start(rec), ord, 1)))

NotCalled ==
    [exc |-> "not called", redacted_record |-> NoRecord, is_pii |-> FALSE,
     record |-> NoRecord]

\* the most keys a record of the model holds
MaxFields == 3

\* the values a key is tried with
ValuesOf(key) ==
    CASE key = "phone" ->
           {Str(DocIn(key)), Str(Append(DocIn(key), "\n")),
            Str(Take(DocIn(key), 5)), Num(5)}
      [] key \in {"aadhar", "passport"} ->
           {Str(DocIn(key)), Str(Take(DocIn(key), 5)), Num(5)}
      [] key = "upi_id" ->
           {Str(DocIn(key)), Str(Take(DocIn(key), 4)), Bool(TRUE)}
      [] key = "email" ->
           {Str(DocIn(key)), Str(Take(DocIn(key), 4)), Str(<<>>),
            Bool(TRUE), Null}
      [] key \in {"name", "device_id"} ->
           {Str(DocIn(key)), Str(<<>>), Num(5), Num(0)}
      [] key \in {"address", "ip_address"} ->
           {Str(DocIn(key)), Str(<<>>), Bool(TRUE), Bool(FALSE)}
      [] OTHER -> {Str(<<"P", "u", "n", "e">>), Num(5), Null}

RECURSIVE RecordsFrom(_, _)
\* the dicts over the keys KeyOrder[i..] that hold at most n keys
RecordsFrom(i, n) ==
    IF i > Len(KeyOrder) THEN {[k \in {} |-> Absent]}
    ELSE LET key == KeyOrder[i]
         IN {(key :> Absent) @@ r : r \in RecordsFrom(i + 1, n)}
            \cup (IF n = 0 THEN {}
                  ELSE {(key :> v) @@ r :
                            v \in ValuesOf(key), r \in RecordsFrom(i + 1, n - 1)})

Records == RecordsFrom(1, MaxFields)
Orders == {KeyOrder, Reverse(KeyOrder)}

RecInit ==
    /\ record \in Records
    /\ given = record
    /\ order \in Orders
    /\ rpc = "ready"
    /\ res = NotCalled

\* redacted_data, is_pii = detector.process_record(record)
ProcessRecord ==
    /\ rpc = "ready"
    /\ res' = process_record(record, order)
    /\ record' = res'.record
    /\ rpc' = "done"
    /\ UNCHANGED <<given, order>>

----------------------------------------------------------------------------
(* main: the rows of the input CSV are read one by one; a row's data_json  *)
(* is JSON text, modelled by whether it parses and the dict it parses to.  *)

\* the most rows an input file of the model holds
MaxRows == 3

RecordOf(key1, v1, key2, v2) == (key1 :> v1) @@ (key2 :> v2) @@ NoRecord

\* the data_json cells tried
RowData ==
    {[valid |-> TRUE, obj |-> RecordOf("name", Str(DocIn("name")), "city", Num(5))],
     [valid |-> TRUE, obj |-> RecordOf("phone", Str(DocIn("phone")), "city", Null)],
     [valid |-> TRUE,
      obj |-> RecordOf("name", Str(DocIn("name")), "email", Str(DocIn("email")))],
     [valid |-> TRUE,
      obj |-> RecordOf("name", Str(DocIn("name")), "email", Str(DocIn("name")))],
     [valid |-> TRUE,
      obj |-> RecordOf("name", Num(5), "device_id", Str(DocIn("device_id")))],
     [valid |-> FALSE, obj |-> NoRecord]}

\* the sequences over S of length at most n
SeqsUpTo(S, n) == UNION {[1..k -> S] : k \in 0..n}

\* json.loads(text)
json_loads(text) ==
    IF text.valid THEN [exc |-> "none", val |-> text.obj]
    ELSE [exc |-> "JSONDecodeError", val |-> NoRecord]

\* writer.writerow({...}) of a processed record, or the exception raised
RowOut(record_id, r) ==
    IF r.exc # "none" THEN [exc |-> r.exc, written |-> <<>>]
    ELSE [exc |-> "none",
          written |-> <<[record_id |-> record_id,
                         redacted_data_json |-> r.redacted_record,
                         is_pii |-> r.is_pii]>>]

\* process_record on what json.loads returned, if it returned
LoadAndProcess(record_id, data_json) ==
    IF data_json.exc # "none" THEN [exc |-> data_json.exc, written |-> <<>>]
    ELSE RowOut(record_id, process_record(data_json.val, KeyOrder))

\* one iteration of `for row in reader`: what it raises, or the row it writes
RowResult(row) == LoadAndProcess(row.record_id, json_loads(row.data_json))

MainInit ==
    /\ rows \in {[i \in 1..Len(cells) |-> [record_id |-> i, data_json |-> cells[i]]] :
                    cells \in SeqsUpTo(RowData, MaxRows)}
    /\ row_i = 1
    /\ outfile = <<>>
    /\ mstatus = "running"

\* the exception leaves the loop, the with block and main; or the row is
\* written and the loop goes on
AfterRow(r) ==
    IF r.exc # "none"
    THEN /\ mstatus' = r.exc
         /\ UNCHANGED <<rows, row_i, outfile>>
    ELSE /\ outfile' = outfile \o r.written
         /\ row_i' = row_i + 1
         /\ UNCHANGED <<rows, mstatus>>

\* the loop body for the next row
ProcessRow ==
    /\ mstatus = "running"
    /\ row_i <= Len(rows)
    /\ AfterRow(RowResult(rows[row_i]))

\* the reader is exhausted: print("Processing complete. ...")
Complete ==
    /\ mstatus = "running"
    /\ row_i > Len(rows)
    /\ mstatus' = "complete"
    /\ UNCHANGED <<rows, row_i, outfile>>

----------------------------------------------------------------------------
(* Specifications *)

MaskIdle ==
    /\ field = "phone" /\ arg = Str(<<>>) /\ mpc = "idle"
    /\ detected = FALSE /\ out = Raise("not called")
RecIdle ==
    /\ record = NoRecord /\ given = NoRecord /\ order = KeyOrder
    /\ rpc = "idle" /\ res = NotCalled
MainIdle ==
    /\ rows = <<>> /\ row_i = 1 /\ outfile = <<>> /\ mstatus = "idle"

\* calls of process_record
Init == RecInit /\ MaskIdle /\ MainIdle
Next == ProcessRecord /\ UNCHANGED <<maskVars, mainVars>>
Spec == Init /\ [][Next]_vars

\* calls of the detector and of the masking functions
MaskSpecInit == MaskInit /\ RecIdle /\ MainIdle
MaskNext ==
    \/ Detect /\ UNCHANGED <<recVars, mainVars>>
    \/ Mask /\ UNCHANGED <<recVars, mainVars>>
MaskSpec == MaskSpecInit /\ [][MaskNext]_vars

\* runs of main
MainSpecInit == MainInit /\ MaskIdle /\ RecIdle
MainNext ==
    \/ ProcessRow /\ UNCHANGED <<maskVars, recVars>>
    \/ Complete /\ UNCHANGED <<maskVars, recVars>>
MainSpec == MainSpecInit /\ [][MainNext]_vars

----------------------------------------------------------------------------
(* Properties *)

\* every value of the record is a string
AllStrings(rec) == \A k \in Keys : rec[k] = Absent \/ IsStr(rec[k])
\* a standalone field whose value matches its pattern
StandaloneMatch(rec, k) ==
    k \in standalone_keys /\ IsStr(rec[k]) /\ patterns(k, rec[k].s)
\* the combinatorial fields present with a non-empty (truthy) value
PresentCombinatorial(rec) ==
    {k \in combinatorial_keys : rec[k] # Absent /\ Truthy(rec[k])}
ThresholdReached(rec) == Cardinality(PresentCombinatorial(rec)) >= 2
\* the classification the spec gives a record
ExpectedPii(rec) ==
    (\E k \in standalone_keys : StandaloneMatch(rec, k)) \/ ThresholdReached(rec)
\* an email value is about to be masked and has no '@'
EmailLacksAt(rec) ==
    /\ ThresholdReached(rec)
    /\ \A k \in PresentCombinatorial(rec) : IsStr(rec[k])
    /\ "email" \in PresentCombinatorial(rec)
    /\ IsStr(rec["email"])
    /\ IndexOf(rec["email"].s, "@") = 0
Returned == rpc = "done" /\ res.exc = "none"

C2_EveryFlaggedFieldMasked ==
    Returned =>
        \A k \in Keys :
            (\/ StandaloneMatch(given, k)
             \/ k \in PresentCombinatorial(given) /\ ThresholdReached(given))
                => res.redacted_record[k] = MaskOf(k, given[k]).val

\* three combinatorial fields present: all three are masked, not two
C2_Witness ==
    /\ Returned
    /\ Cardinality(PresentCombinatorial(given)) = 3
    /\ \A k \in PresentCombinatorial(given) :
           res.redacted_record[k] # given[k]

\* a field the spec says passes through unchanged
PassesThrough(rec, k) ==
    \/ k \notin (standalone_keys \cup combinatorial_keys)
    \/ k \in standalone_keys /\ ~StandaloneMatch(rec, k)
    \/ k \in combinatorial_keys /\ ~ThresholdReached(rec)

C4_PhoneExactlyTenDigits ==
    (mpc # "ready" /\ field = "phone")
        => (detected <=> (Len(arg.s) = 10 /\ AllIn(arg.s, Digits)))

\* a row of the input that processes without an exception
RowSucceeds(i) == RowResult(rows[i]).exc = "none"
RowWritten(i) == \E j \in 1..Len(outfile) : outfile[j].record_id = i

(* C5: when main has ended, every row that processes successfully, before  *)
(* or after a row that fails, has been written to the output.              *)
C5_OtherRowsStillWritten ==
    mstatus # "running" =>
        \A i \in 1..Len(rows) : RowSucceeds(i) => RowWritten(i)

(* C6: when process_record is about to mask an email value that has no '@' *)
(* it signals a MalformedFieldError.                                       *)
C6_MalformedFieldError ==
    (rpc = "done" /\ EmailLacksAt(given)) => res.exc = "MalformedFieldError"

(* C7: each masking function returns its documented example output for its *)
(* documented example input.                                               *)
C7_DocumentedExamples ==
    (mpc = "masked" /\ arg = Str(DocIn(field))) => out = Ok(Str(DocOut(field)))

(* C9: every masking function returns a string without raising when called *)
(* with the empty string.                                                  *)
C9_EmptyStringDoesNotRaise ==
    (mpc = "masked" /\ arg = Str(<<>>)) => (out.exc = "none" /\ IsStr(out.val))

\* every string email value of the record contains '@'
EmailsWellFormed(rec) ==
    IsStr(rec["email"]) => IndexOf(rec["email"].s, "@") # 0

(* C10: for every record of strings, numbers, booleans and nulls whose     *)
(* string email values contain '@', process_record returns without raising.*)
C10_ScalarsDoNotRaise ==
    (rpc = "done" /\ EmailsWellFormed(given)) => res.exc = "none"

\* position i of a value, as a character no mask writes
Label(i) == "#" \o ToString(i)
Relabel(s) == [i \in 1..Len(s) |-> Label(i)]
IsLabel(c, n) == \E p \in 1..n : c = Label(p)
\* o with every label put back to the character of s it stands for
Unlabel(o, s) ==
    [i \in 1..Len(o) |->
        IF IsLabel(o[i], Len(s))
        THEN s[CHOOSE p \in 1..Len(s) : o[i] = Label(p)]
        ELSE o[i]]
\* the length of the longest run of characters of o that are labels
LongestRun(o, n) ==
    LET runs == {len \in 1..Len(o) :
                    \E i \in 1..(Len(o) - len + 1) :
                        \A j \in i..(i + len - 1) : IsLabel(o[j], n)}
    IN IF runs = {} THEN 0 ELSE CHOOSE len \in runs : \A l \in runs : l <= len
\* the field's mask of value s with its characters labelled by position:
\* the labels left in it are the characters the mask copies from s
MaskLabelled(key, s) == MaskOf(key, Str(Relabel(s))).val.s
\* the longest run of characters the field's mask copies from s
CopiedRun(key, s) == LongestRun(MaskLabelled(key, s), Len(s))
\* the calls C8 is about: a value that matches its field's pattern, or any
\* device id
C8_Case ==
    /\ mpc = "masked"
    /\ \/ field \in {"phone", "aadhar", "passport"} /\ detected
       \/ field = "device_id"

(* C8, as stated: the output of mask_phone, mask_aadhar and mask_passport  *)
(* for a value matching its pattern, and of mask_device_id for any value,  *)
(* contains no run of 4 or more characters copied from the value.          *)
C8_NoRunOfFourCopied ==
    C8_Case =>
        /\ out = Ok(Str(Unlabel(MaskLabelled(field, arg.s), arg.s)))
        /\ CopiedRun(field, arg.s) < 4

(* C8, amended: the output of mask_phone and mask_passport for a value     *)
(* matching its pattern, and of mask_device_id for any value, contains no  *)
(* run of 4 or more characters copied from the value; the output of        *)
(* mask_aadhar for a matching value ends with the value's last 4           *)
(* characters, a copied run of exactly 4 and no more.                      *)
C8_NoRunOfFourCopiedButAadhar ==
    C8_Case =>
        /\ out = Ok(Str(Unlabel(MaskLabelled(field, arg.s), arg.s)))
        /\ IF field = "aadhar"
           THEN /\ CopiedRun(field, arg.s) = 4
                /\ LastN(out.val.s, 4) = LastN(arg.s, 4)
           ELSE CopiedRun(field, arg.s) < 4

\* a ten-digit phone number masked: two digits kept at either end
C8_Witness ==
    /\ C8_Case /\ field = "phone" /\ Len(arg.s) = 10
    /\ CopiedRun(field, arg.s) = 2
    /\ out.val.s # arg.s

====
